---- MODULE Spec2Model ----
(***************************************************************************)
(* Model of nds/nds_power.py: the query stream parser                      *)
(* (gen_sql_from_stream), the column name sanitizer                        *)
(* (ensure_valid_column_names), the subset selector (get_query_subset)     *)
(* and the power run orchestrator (run_query_stream).                      *)
(*                                                                         *)
(* Text is modelled as a sequence of one-character strings, so that        *)
(* str.find, str.split, slicing and concatenation are computed character   *)
(* by character as Python computes them.                                   *)
(***************************************************************************)
EXTENDS Integers, Sequences, FiniteSets, TLC

VARIABLES
    columns,        \* sanitizer: df.columns, the input column names
    sanitized,      \* sanitizer: outcome of ensure_valid_column_names
    blocks,         \* parser: the query blocks the stream file was generated from
    stream,         \* parser: the text of the stream file
    parsed,         \* parser: outcome of gen_sql_from_stream
    pc,             \* run_query_stream: the statement to execute next
    args,           \* run_query_stream: the arguments of the call
    query_dict,     \* run_query_stream: the ordered collection of queries
    spark_session,  \* the session of the engine: "none", "alive" or "stopped"
    sessions_created,   \* the number of sessions created so far
    spark_app_id,   \* run_query_stream: the application id of the session
    tables,         \* the tables registered or loaded in the session
    execution_time_list,    \* run_query_stream: the timing records
    executed,       \* the names of the queries given to the engine, in order
    reports,        \* the summaries report_on returned, in order
    summaries,      \* the names of the per-query summaries written, in order
    now,            \* the wall clock, in milliseconds
    total_time_start,   \* run_query_stream: the clock at entry
    power_start,    \* run_query_stream: the clock before the first query, in seconds
    power_end,      \* run_query_stream: the clock after the last query, in seconds
    time_log,       \* the rows of the file at time_log_output_path
    time_log_writes,    \* the number of times that file was written
    extra_time_log, \* the rows written at extra_time_log_output_path
    error,          \* the exception that ended run_query_stream, or "none"
    engine_log      \* the operations on the engine, in order, each with the number
                    \* of the session it used and whether that session was alive

sanVars == <<columns, sanitized>>
parseVars == <<blocks, stream, parsed>>
runVars ==
    <<pc, args, query_dict, spark_session, sessions_created, spark_app_id, tables,
      execution_time_list, executed, reports, summaries, now, total_time_start,
      power_start, power_end, time_log, time_log_writes, extra_time_log, error,
      engine_log>>
vars == <<sanVars, parseVars, runVars>>

(***************************************************************************)
(* Generic helpers on sequences                                            *)
(***************************************************************************)

\* list.count(v)
Count(seq, v) == Cardinality({i \in DOMAIN seq : seq[i] = v})

\* the sequences over S of length at most n
SeqsUpTo(S, n) == UNION {[1..k -> S] : k \in 0..n}

(***************************************************************************)
(* Column name sanitizer                                                   *)
(***************************************************************************)

\* bound: the number of columns of a result
MaxCols == 3

\* str.isalpha() on the characters of the texts modelled here: every letter
AlphaChars ==
    { "a", "b", "c", "d", "e", "f", "g", "h", "i", "j", "k", "l", "m",
      "n", "o", "p", "q", "r", "s", "t", "u", "v", "w", "x", "y", "z",
      "A", "B", "C", "D", "E", "F", "G", "H", "I", "J", "K", "L", "M",
      "N", "O", "P", "Q", "R", "S", "T", "U", "V", "W", "X", "Y", "Z" }
\* str.isdigit() on the same characters
DigitChars == {"0", "1", "2", "3", "4", "5", "6", "7", "8", "9"}

\* the column names a result is drawn from: empty, valid, colliding with a
\* suffixed name, invalid at the start, invalid inside
ColumnNames ==
    { <<>>, <<"a">>, <<"a", "0">>, <<"a", "1">>, <<"_">>, <<"-">>,
      <<"0">>, <<"a", "-">>, <<"a", "_">> }

is_column_start(char) == char \in AlphaChars \/ char = "_"

is_column_part(char) == char \in AlphaChars \/ char \in DigitChars \/ char = "_"

is_valid(column_name) ==
    /\ Len(column_name) > 0
    /\ is_column_start(column_name[1])
    /\ \A i \in 2..Len(column_name) : is_column_part(column_name[i])

\* make_valid indexes column_name[0]: it raises IndexError on the empty name
make_valid_raises(column_name) == Len(column_name) = 0

make_valid(column_name) ==
    [i \in 1..Len(column_name) |->
        IF i = 1
        THEN IF is_column_start(column_name[1]) THEN column_name[1] ELSE "_"
        ELSE IF is_column_part(column_name[i]) THEN column_name[i] ELSE "_"]

\* str(n) for n >= 0
RECURSIVE str(_)
str(n) ==
    LET digit == <<"0", "1", "2", "3", "4", "5", "6", "7", "8", "9">>[(n % 10) + 1]
    IN IF n < 10 THEN <<digit>> ELSE str(n \div 10) \o <<digit>>

\* the suffix deduplicate appends at position i
dedup_suffix_first_only(column_names, i) ==
    LET index == Count(SubSeq(column_names, 1, i - 1), column_names[i])
    IN IF index > 0 THEN str(index) ELSE <<>>

dedup_suffix(column_names, i) ==
    LET count == Count(column_names, column_names[i])
        index == Count(SubSeq(column_names, 1, i - 1), column_names[i])
    IN IF count > 1 THEN str(index) ELSE <<>>

deduplicate(column_names) ==
    [i \in 1..Len(column_names) |-> column_names[i] \o dedup_suffix(column_names, i)]

valid_col_names(cols) ==
    [i \in 1..Len(cols) |-> IF is_valid(cols[i]) THEN cols[i] ELSE make_valid(cols[i])]

\* the outcome of ensure_valid_column_names(df): the names given to toDF, or
\* the IndexError make_valid raises
ensure_valid_column_names(cols) ==
    IF \E i \in DOMAIN cols : ~is_valid(cols[i]) /\ make_valid_raises(cols[i])
    THEN [status |-> "IndexError", names |-> <<>>]
    ELSE [status |-> "ok", names |-> deduplicate(valid_col_names(cols))]

Pending == [status |-> "pending", names |-> <<>>]

NotParsed == [status |-> "pending", entries |-> <<>>]

NoArgs ==
    [query_dict |-> <<>>, sub_queries |-> <<>>, property_file |-> "", input_format |-> "parquet",
     delta_unmanaged |-> FALSE, hive_external |-> FALSE, json_summary_folder |-> "none",
     keep_sc |-> FALSE, extra_time_log_output_path |-> FALSE]

\* the state in which run_query_stream has not been called
RunIdle ==
    /\ pc = "idle"
    /\ args = NoArgs
    /\ query_dict = <<>>
    /\ spark_session = "none"
    /\ sessions_created = 0
    /\ spark_app_id = ""
    /\ tables = {}
    /\ execution_time_list = <<>>
    /\ executed = <<>>
    /\ reports = <<>>
    /\ summaries = <<>>
    /\ now = 0
    /\ total_time_start = 0
    /\ power_start = 0
    /\ power_end = 0
    /\ time_log = <<>>
    /\ time_log_writes = 0
    /\ extra_time_log = <<>>
    /\ error = "none"
    /\ engine_log = <<>>

InitSan ==
    /\ columns \in SeqsUpTo(ColumnNames, MaxCols)
    /\ sanitized = Pending
    /\ blocks = <<>>
    /\ stream = <<>>
    /\ parsed = NotParsed
    /\ RunIdle

Sanitize ==
    /\ sanitized.status = "pending"
    /\ sanitized' = ensure_valid_column_names(columns)
    /\ UNCHANGED <<columns, parseVars, runVars>>

NextSan == Sanitize

SpecSan == InitSan /\ [][NextSan]_vars

\* C4 (as claimed): every name the sanitizer returns is a valid identifier
\* and no two returned names are equal.
C4_ValidAndUnique ==
    sanitized.status = "ok" =>
        /\ \A i \in DOMAIN sanitized.names : is_valid(sanitized.names[i])
        /\ \A i, j \in DOMAIN sanitized.names :
               i # j => sanitized.names[i] # sanitized.names[j]

\* C5: whenever the sanitizer returns, the output has the length of the
\* input, and position i holds the validity-rewritten name of input position
\* i, followed by the decimal count of equal rewritten names at earlier
\* positions when the rewritten name occurs more than once, and by nothing
\* when it occurs once.
C5_SuffixOnlyRepeated ==
    sanitized.status = "ok" =>
        LET v == valid_col_names(columns)
        IN /\ Len(sanitized.names) = Len(columns)
           /\ \A i \in DOMAIN columns :
                  LET earlier == Cardinality({j \in 1..(i - 1) : v[j] = v[i]})
                      total == Cardinality({j \in DOMAIN v : v[j] = v[i]})
                  IN /\ is_valid(v[i])
                     /\ Len(v[i]) = Len(columns[i])
                     /\ sanitized.names[i] =
                            IF total > 1 THEN v[i] \o str(earlier) ELSE v[i]

\* a result with a rewritten name, a repeated name that got a suffix and a
\* name that occurs once and got none
C5_Witness ==
    /\ sanitized.status = "ok"
    /\ \E i, j, k \in DOMAIN columns :
          /\ ~is_valid(columns[i])
          /\ j # k /\ valid_col_names(columns)[j] = valid_col_names(columns)[k]
          /\ sanitized.names[k] # valid_col_names(columns)[k]
    /\ \E i \in DOMAIN columns : sanitized.names[i] = columns[i]

(***************************************************************************)
(* Text helpers: Python's str operations on sequences of characters        *)
(***************************************************************************)

\* s.find(sub): the lowest 0-based index where sub occurs in s, or -1
Find(s, sub) ==
    LET hits == {i \in 0..(Len(s) - Len(sub)) : SubSeq(s, i + 1, i + Len(sub)) = sub}
    IN IF hits = {} THEN -1 ELSE CHOOSE i \in hits : \A j \in hits : i <= j

\* sub in s
Contains(s, sub) == Find(s, sub) # -1

\* s[a:b], with Python's treatment of negative and out-of-range indices
Slice(s, a, b) ==
    LET n == Len(s)
        norm(k) == IF k < 0 THEN (IF k + n < 0 THEN 0 ELSE k + n)
                   ELSE (IF k > n THEN n ELSE k)
    IN SubSeq(s, norm(a) + 1, norm(b))

\* s.split(sep)
RECURSIVE Split(_, _)
Split(s, sep) ==
    LET i == Find(s, sep)
    IN IF i = -1 THEN <<s>>
       ELSE <<SubSeq(s, 1, i)>> \o Split(SubSeq(s, i + Len(sep) + 1, Len(s)), sep)

\* the concatenation of a sequence of texts
RECURSIVE Concat(_)
Concat(ss) == IF ss = <<>> THEN <<>> ELSE Head(ss) \o Concat(Tail(ss))

(***************************************************************************)
(* Query stream parser                                                     *)
(***************************************************************************)

\* bound: the number of query blocks of a stream
MaxBlocks == 3

START == <<"-", "-", " ", "s", "t", "a", "r", "t">>
TEMPLATE == <<"t", "e", "m", "p", "l", "a", "t", "e">>
TPL == <<".", "t", "p", "l">>
SEMI == <<";">>
SELECT == <<"s", "e", "l", "e", "c", "t">>
PART1 == <<"_", "p", "a", "r", "t", "1">>
PART2 == <<"_", "p", "a", "r", "t", "2">>

Q14 == <<"q", "u", "e", "r", "y", "1", "4">>
Q23 == <<"q", "u", "e", "r", "y", "2", "3">>
Q24 == <<"q", "u", "e", "r", "y", "2", "4">>
Q39 == <<"q", "u", "e", "r", "y", "3", "9">>
Q96 == <<"q", "u", "e", "r", "y", "9", "6">>

\* the templates whose queries hold two statements
SpecialTemplates == {Q14, Q23, Q24, Q39}

\* the template identifiers the blocks of a stream are drawn from
TemplateNames == {Q14, Q39, Q96}

\* the kinds of block: of shape "ordinary" (one statement), "special" (two
\* statements, the second a select), "nosemi" (a statement without its
\* terminator) or "notemplate" (a block without the template annotation)
BlockKinds ==
    {[shape |-> s, name |-> n] : s \in {"ordinary", "special", "nosemi"}, n \in TemplateNames}
        \cup {[shape |-> "notemplate", name |-> <<>>]}

\* the text that precedes the first start marker of the file
Prefixes == {<<>>, <<"x", "\n">>}

\* the text of a block after its start marker, as the stream generator emits it
BlockBody(b) ==
    LET head == <<" ">> \o TEMPLATE \o <<" ">> \o b.name \o TPL \o <<"\n">>
        stmt == SELECT \o <<" ", "x">>
        end == <<"\n", "-", "-", " ", "e", "n", "d", "\n">>
    IN CASE b.shape = "ordinary" -> head \o stmt \o SEMI \o end
         [] b.shape = "special" -> head \o stmt \o SEMI \o <<"\n">> \o stmt \o SEMI \o end
         [] b.shape = "nosemi" -> head \o stmt \o end
         [] OTHER -> <<" ">> \o stmt \o SEMI \o end

StreamText(prefix, bs) ==
    prefix \o Concat([i \in 1..Len(bs) |-> START \o BlockBody(bs[i])])

\* OrderedDict.__setitem__: a new key is appended, a known key keeps its place
Put(d, k, v) ==
    IF \E i \in DOMAIN d : d[i].name = k
    THEN [i \in DOMAIN d |-> IF d[i].name = k THEN [name |-> k, content |-> v] ELSE d[i]]
    ELSE Append(d, [name |-> k, content |-> v])

\* the keys of an ordered collection, in iteration order
Keys(d) == [i \in DOMAIN d |-> d[i].name]

\* q[q.find('template')+9: q.find('.tpl')], with the marker one character short
query_name_short(q) == Slice(q, Find(q, TEMPLATE) + 8, Find(q, TPL))

\* q[q.find('template')+9: q.find('.tpl')]
query_name(q) == Slice(q, Find(q, TEMPLATE) + 9, Find(q, TPL))

\* q.split(';')[2] raises IndexError when q holds fewer than two ';'
chunk_raises_third_part(q) == Len(Split(q, SEMI)) < 3

\* q.split(';')[1] raises IndexError when q holds no ';'
chunk_raises(q) == Len(Split(q, SEMI)) < 2

\* 'select' in q.split(';')[1]
is_special(q) == Contains(Split(q, SEMI)[2], SELECT)

\* split_special_query(q): the two statement groups of a special query
split_special_query(q) ==
    LET split_q == Split(q, SEMI)
    IN <<split_q[1] \o SEMI, split_q[2] \o SEMI>>

\* the entries a special chunk adds (variant: in the opposite order)
special_entries_swapped(d, q) ==
    LET parts == split_special_query(q)
    IN Put(Put(d, query_name(q) \o PART2, parts[2]), query_name(q) \o PART1, parts[1])

\* the entries a special chunk adds
special_entries(d, q) ==
    LET parts == split_special_query(q)
    IN Put(Put(d, query_name(q) \o PART1, parts[1]), query_name(q) \o PART2, parts[2])

\* the loop over all_queries, from the collection d on
RECURSIVE extended_queries(_, _)
extended_queries(d, all_queries) ==
    IF all_queries = <<>> THEN d
    ELSE LET q == Head(all_queries)
         IN extended_queries(
                IF is_special(q) THEN special_entries(d, q) ELSE Put(d, query_name(q), q),
                Tail(all_queries))

\* gen_sql_from_stream on the text of the file: the ordered collection, or
\* the IndexError of the first chunk without a second ';'-separated part
gen_sql_from_stream(text) ==
    LET all_queries == Tail(Split(text, START))
    IN IF \E i \in DOMAIN all_queries : chunk_raises(all_queries[i])
       THEN [status |-> "IndexError", entries |-> <<>>]
       ELSE LET d == extended_queries(<<>>, all_queries)
            IN [status |-> "ok",
                entries |-> [i \in DOMAIN d |->
                                [name |-> d[i].name, content |-> START \o d[i].content]]]

InitParse ==
    /\ blocks \in SeqsUpTo(BlockKinds, MaxBlocks)
    /\ \E prefix \in Prefixes : stream = StreamText(prefix, blocks)
    /\ parsed = NotParsed
    /\ columns = <<>>
    /\ sanitized = Pending
    /\ RunIdle

Parse ==
    /\ parsed.status = "pending"
    /\ parsed' = gen_sql_from_stream(stream)
    /\ UNCHANGED <<blocks, stream, sanVars, runVars>>

NextParse == Parse

SpecParse == InitParse /\ [][NextParse]_vars

\* seq without its element at position i
RemoveAt(seq, i) == SubSeq(seq, 1, i - 1) \o SubSeq(seq, i + 1, Len(seq))

\* the keys of the collection parsed from the stream of the blocks bs
KeysOf(bs) == Keys(gen_sql_from_stream(StreamText(<<>>, bs)).entries)

AllOrdinary == \A i \in DOMAIN blocks : blocks[i].shape = "ordinary"

DistinctTemplates ==
    \A i, j \in DOMAIN blocks : i # j => blocks[i].name # blocks[j].name

\* C6 (as claimed): a stream of K blocks, none special, parses to exactly K
\* entries named by the blocks' template identifiers in stream order.
C6_OneEntryPerBlock ==
    (parsed.status # "pending" /\ AllOrdinary) =>
        /\ parsed.status = "ok"
        /\ Len(parsed.entries) = Len(blocks)
        /\ Keys(parsed.entries) = [i \in DOMAIN blocks |-> blocks[i].name]

\* C6 (amended): a stream of K blocks, none special, with pairwise distinct
\* template identifiers parses to exactly K entries named by the blocks'
\* template identifiers in stream order.
C6_OneEntryPerDistinctBlock ==
    (parsed.status # "pending" /\ AllOrdinary /\ DistinctTemplates) =>
        /\ parsed.status = "ok"
        /\ Len(parsed.entries) = Len(blocks)
        /\ Keys(parsed.entries) = [i \in DOMAIN blocks |-> blocks[i].name]

\* three ordinary blocks of distinct templates have been parsed
C6_Witness ==
    /\ parsed.status = "ok"
    /\ Len(blocks) = 3 /\ AllOrdinary /\ DistinctTemplates
    /\ Len(parsed.entries) = 3

\* block i is taken from a known special template and holds two statements,
\* the second a select
IsSpecialBlock(i) ==
    blocks[i].shape = "special" /\ blocks[i].name \in SpecialTemplates

\* the entries B_part1, B_part2 of block i stand next to each other at the
\* block's place, no entry is named B, and the other entries are those of
\* the stream without block i, in the same order
SplitInPlace(i) ==
    LET B == blocks[i].name
        names == Keys(parsed.entries)
        p == Len(KeysOf(SubSeq(blocks, 1, i - 1))) + 1
    IN /\ Len(names) >= p + 1
       /\ names[p] = B \o PART1
       /\ names[p + 1] = B \o PART2
       /\ \A k \in DOMAIN names : names[k] # B
       /\ RemoveAt(RemoveAt(names, p), p) = KeysOf(RemoveAt(blocks, i))

\* C7 (as claimed): a parsed stream holds, for each block B of a known
\* special template with two statements, the second a select, the entries
\* B_part1 and B_part2, adjacent, at B's position, and no entry named B; the
\* order of the other entries is unchanged.
C7_SplitInPlace ==
    parsed.status = "ok" =>
        \A i \in DOMAIN blocks : IsSpecialBlock(i) => SplitInPlace(i)

\* C7 (amended): the same, for a block B whose template identifier no other
\* block of the stream carries.
C7_SplitInPlaceUniqueTemplate ==
    parsed.status = "ok" =>
        \A i \in DOMAIN blocks :
            (IsSpecialBlock(i) /\ \A j \in DOMAIN blocks : j # i => blocks[j].name # blocks[i].name)
                => SplitInPlace(i)

\* a special block between two other blocks has been parsed
C7_Witness ==
    /\ parsed.status = "ok"
    /\ Len(blocks) = 3 /\ IsSpecialBlock(2) /\ DistinctTemplates
    /\ blocks[1].shape = "ordinary"
    /\ Len(parsed.entries) = 4

\* C8 (as claimed): parsing never raises.
C8_NeverRaises == parsed.status # "IndexError"

\* C8 (amended): parsing returns an ordered collection when every chunk
\* after a start marker holds a statement terminator ';', with or without a
\* template marker, and raises IndexError when some chunk holds none.
C8_RaisesIffNoTerminator ==
    parsed.status # "pending" =>
        (parsed.status = "ok" <=> \A i \in DOMAIN blocks : blocks[i].shape # "nosemi")

\* a stream with a chunk without template marker has been parsed
C8_Witness ==
    /\ parsed.status = "ok"
    /\ \E i \in DOMAIN blocks : blocks[i].shape = "notemplate"
    /\ Len(parsed.entries) >= 1

(***************************************************************************)
(* Subset selector and power run orchestrator                              *)
(***************************************************************************)

\* bound: the number of queries of the collection given to run_query_stream
MaxQueries == 3

\* bound: the number of tables of the schema
NumTables == 2

AllQueryNames == <<"q1", "q2", "q3", "q4", "q5">>

AllTableNames == <<"t1", "t2", "t3", "t4">>

\* get_schemas(False).keys()
table_names == SubSeq(AllTableNames, 1, NumTables)

\* the collection of the first n queries
QueryDict(n) == [i \in 1..n |-> [name |-> AllQueryNames[i], content |-> "sql " \o AllQueryNames[i]]]

\* the names --sub_queries is drawn from: those of the collection and one more
RequestableNames == {AllQueryNames[i] : i \in 1..(MaxQueries + 1)}

\* the values of --sub_queries: none, or a list of one, two or three names
SubQueryLists ==
    {<<>>} \cup {<<a>> : a \in RequestableNames}
        \cup {<<a, b>> : a \in RequestableNames, b \in RequestableNames}
        \cup {<<a, b, c>> : a \in RequestableNames, b \in RequestableNames,
                             c \in RequestableNames}

\* summary['queryTimes'] as report_on returns it
QueryTimesSet == {<<1>>, <<2, 1>>}

\* q_report.report_on(run_one_query, ...): the summary of the query, or the
\* failure of the query, which report_on lets through
report_on_outcomes ==
    {[status |-> "ok", queryTimes |-> t] : t \in QueryTimesSet}
        \cup {[status |-> "raise", queryTimes |-> <<>>]}

\* check_json_summary_folder(json_summary_folder) raises on a folder that
\* cannot take the summaries
check_json_summary_folder_raises(folder) == folder = "unusable"

HEADER == <<"application_id", "query", "time/milliseconds">>

\* sparkContext.applicationId of the n-th session
AppId(n) == <<"app-1", "app-2", "app-3">>[n]

\* d[k]
Lookup(d, k) == (CHOOSE e \in {d[i] : i \in DOMAIN d} : e.name = k).content

HasKey(d, k) == \E i \in DOMAIN d : d[i].name = k

\* check_query_subset_exists raises when a requested name is not a key
subset_missing(d, subset) == \E i \in DOMAIN subset : ~HasKey(d, subset[i])

\* dict((k, query_dict[k]) for k in subset), from the pairs of subset[i..] on
RECURSIVE subset_dict(_, _, _)
subset_dict(acc, d, subset) ==
    IF subset = <<>> THEN acc
    ELSE subset_dict(Put(acc, Head(subset), Lookup(d, Head(subset))), d, Tail(subset))

\* get_query_subset, keeping the collection's own order
get_query_subset_collection_order(d, subset) ==
    IF subset_missing(d, subset)
    THEN [status |-> "missing_query", dict |-> <<>>]
    ELSE [status |-> "ok",
          dict |-> SelectSeq(d, LAMBDA e : \E i \in DOMAIN subset : subset[i] = e.name)]

\* get_query_subset, passing over the names that are not in the collection
get_query_subset_skip_missing(d, subset) ==
    [status |-> "ok",
     dict |-> subset_dict(<<>>, d, SelectSeq(subset, LAMBDA k : HasKey(d, k)))]

\* get_query_subset(query_dict, subset): the filtered collection, or the
\* missing-query failure
get_query_subset(d, subset) ==
    IF subset_missing(d, subset)
    THEN [status |-> "missing_query", dict |-> <<>>]
    ELSE [status |-> "ok", dict |-> subset_dict(<<>>, d, subset)]

\* an operation op on the engine through the session held in spark_session
engine_op(op, session_state, session_number) ==
    [op |-> op, session |-> session_number, alive |-> session_state = "alive"]

\* the loads or registrations of the tables, one per table
table_ops(op, session_state, session_number) ==
    [i \in 1..Len(table_names) |-> engine_op(op, session_state, session_number)]

\* the records register_delta_tables / setup_tables append, one per table,
\* each load taking one millisecond
table_records(app, label) ==
    [i \in 1..Len(table_names) |-> <<app, label \o " " \o table_names[i], 1>>]

\* (spark_app_id, query_name, query_times[0])
query_record(app, q_name, query_times) == <<app, q_name, query_times[1]>>

\* the four run-level records (variant: end before start)
run_level_records_end_first(app, p_start, p_end, p_elapse, t_elapse) ==
    << <<app, "Power End Time", p_end>>,
       <<app, "Power Start Time", p_start>>,
       <<app, "Power Test Time", p_elapse>>,
       <<app, "Total Time", t_elapse>> >>

\* the four run-level records
run_level_records(app, p_start, p_end, p_elapse, t_elapse) ==
    << <<app, "Power Start Time", p_start>>,
       <<app, "Power End Time", p_end>>,
       <<app, "Power Test Time", p_elapse>>,
       <<app, "Total Time", t_elapse>> >>

\* os.path.join(json_summary_folder, os.path.basename(property_file).split('.')[0]),
\* or os.path.join(json_summary_folder, '')
summary_prefix(property_file) ==
    IF property_file # "" THEN "summaries/aqe-on" ELSE "summaries/"

\* writer.writerow(header); writer.writerows(execution_time_list)
time_log_rows(rows) == <<HEADER>> \o rows

\* createDataFrame(data=execution_time_list, schema=header) written by
\* write.csv(path) with no header option: the header names the columns of the
\* frame and is not one of the rows written
extra_time_log_rows(rows) == rows

RunArgs ==
    [query_dict : {QueryDict(n) : n \in 0..MaxQueries},
     sub_queries : SubQueryLists,
     property_file : {"", "aqe-on.properties"},
     input_format : {"parquet", "iceberg", "delta"},
     delta_unmanaged : BOOLEAN,
     hive_external : BOOLEAN,
     json_summary_folder : {"none", "usable", "unusable"},
     keep_sc : BOOLEAN,
     extra_time_log_output_path : BOOLEAN]

Init ==
    /\ args \in RunArgs
    /\ pc = "start"
    /\ query_dict = args.query_dict
    /\ spark_session = "none"
    /\ sessions_created = 0
    /\ spark_app_id = ""
    /\ tables = {}
    /\ execution_time_list = <<>>
    /\ executed = <<>>
    /\ reports = <<>>
    /\ summaries = <<>>
    /\ now = 0
    /\ total_time_start = 0
    /\ power_start = 0
    /\ power_end = 0
    /\ time_log = <<>>
    /\ time_log_writes = 0
    /\ extra_time_log = <<>>
    /\ error = "none"
    /\ engine_log = <<>>
    /\ columns = <<>>
    /\ sanitized = Pending
    /\ blocks = <<>>
    /\ stream = <<>>
    /\ parsed = NotParsed

\* lines 212-237, with the summary folder checked first
CreateSessionAfterCheck ==
    /\ pc = "start"
    /\ IF check_json_summary_folder_raises(args.json_summary_folder)
       THEN /\ pc' = "failed"
            /\ error' = "summary_folder"
            /\ UNCHANGED <<spark_session, sessions_created>>
       ELSE /\ pc' = "register"
            /\ spark_session' = "alive"
            /\ sessions_created' = sessions_created + 1
            /\ UNCHANGED error
    /\ execution_time_list' = <<>>
    /\ total_time_start' = now
    /\ UNCHANGED engine_log
    /\ UNCHANGED <<args, query_dict, spark_app_id, tables, executed, reports, summaries,
                   now, power_start, power_end, time_log, time_log_writes, extra_time_log,
                   sanVars, parseVars>>

\* lines 212-237: execution_time_list = [], total_time_start, getOrCreate()
CreateSession ==
    /\ pc = "start"
    /\ execution_time_list' = <<>>
    /\ total_time_start' = now
    /\ spark_session' = "alive"
    /\ sessions_created' = sessions_created + 1
    /\ pc' = "register"
    /\ UNCHANGED engine_log
    /\ UNCHANGED <<args, query_dict, spark_app_id, tables, executed, reports, summaries,
                   now, power_start, power_end, time_log, time_log_writes, extra_time_log,
                   error, sanVars, parseVars>>

\* lines 239-242: register_delta_tables for unmanaged Delta tables, then the
\* application id is read
RegisterDeltaTables ==
    /\ pc = "register"
    /\ spark_session = "alive"
    /\ IF args.input_format = "delta" /\ args.delta_unmanaged
       THEN /\ execution_time_list' =
                  execution_time_list \o table_records(AppId(sessions_created), "Register")
            /\ tables' = tables \cup {table_names[i] : i \in DOMAIN table_names}
            /\ now' = now + Len(table_names)
       ELSE UNCHANGED <<execution_time_list, tables, now>>
    /\ spark_app_id' = AppId(sessions_created)
    /\ pc' = "setup"
    /\ engine_log' =
           IF args.input_format = "delta" /\ args.delta_unmanaged
           THEN engine_log \o table_ops("register", spark_session, sessions_created)
           ELSE engine_log
    /\ UNCHANGED <<args, query_dict, spark_session, sessions_created, executed, reports,
                   summaries, total_time_start, power_start, power_end, time_log,
                   time_log_writes, extra_time_log, error, sanVars, parseVars>>

\* lines 243-245: setup_tables unless the tables come from a catalog
SetupTables ==
    /\ pc = "setup"
    /\ spark_session = "alive"
    /\ IF args.input_format # "iceberg" /\ args.input_format # "delta" /\ ~args.hive_external
       THEN /\ execution_time_list' =
                  execution_time_list \o table_records(spark_app_id, "CreateTempView")
            /\ tables' = tables \cup {table_names[i] : i \in DOMAIN table_names}
            /\ now' = now + Len(table_names)
       ELSE UNCHANGED <<execution_time_list, tables, now>>
    /\ pc' = "check"
    /\ engine_log' =
           IF args.input_format # "iceberg" /\ args.input_format # "delta" /\ ~args.hive_external
           THEN engine_log \o table_ops("load", spark_session, sessions_created)
           ELSE engine_log
    /\ UNCHANGED <<args, query_dict, spark_session, sessions_created, spark_app_id,
                   executed, reports, summaries, total_time_start, power_start, power_end,
                   time_log, time_log_writes, extra_time_log, error, sanVars, parseVars>>

\* line 247: check_json_summary_folder(json_summary_folder)
CheckSummaryFolder ==
    /\ pc = "check"
    /\ IF check_json_summary_folder_raises(args.json_summary_folder)
       THEN pc' = "failed" /\ error' = "summary_folder"
       ELSE pc' = "subset" /\ UNCHANGED error
    /\ UNCHANGED engine_log
    /\ UNCHANGED <<args, query_dict, spark_session, sessions_created, spark_app_id, tables,
                   execution_time_list, executed, reports, summaries, now, total_time_start,
                   power_start, power_end, time_log, time_log_writes, extra_time_log,
                   sanVars, parseVars>>

\* lines 248-251: the optional subset, then power_start
SelectSubset ==
    /\ pc = "subset"
    /\ IF args.sub_queries # <<>>
       THEN LET r == get_query_subset(query_dict, args.sub_queries)
            IN IF r.status = "ok"
               THEN /\ query_dict' = r.dict
                    /\ power_start' = now \div 1000
                    /\ pc' = "loop"
                    /\ UNCHANGED error
               ELSE /\ pc' = "failed"
                    /\ error' = r.status
                    /\ UNCHANGED <<query_dict, power_start>>
       ELSE /\ power_start' = now \div 1000
            /\ pc' = "loop"
            /\ UNCHANGED <<query_dict, error>>
    /\ UNCHANGED engine_log
    /\ UNCHANGED <<args, spark_session, sessions_created, spark_app_id, tables,
                   execution_time_list, executed, reports, summaries, now, total_time_start,
                   power_end, time_log, time_log_writes, extra_time_log, sanVars, parseVars>>

\* lines 252-261, the failure recorded but the loop going on
QueryFailsLoopGoesOn ==
    /\ pc = "loop"
    /\ Len(executed) < Len(query_dict)
    /\ spark_session = "alive"
    /\ \E r \in report_on_outcomes : r.status = "raise"
    /\ executed' = Append(executed, query_dict[Len(executed) + 1].name)
    /\ reports' = Append(reports, [name |-> query_dict[Len(executed) + 1].name,
                                   queryTimes |-> <<0>>])
    /\ now' = now + 1000
    /\ error' = "query_failed"
    /\ engine_log' = Append(engine_log, engine_op("query", spark_session, sessions_created))
    /\ UNCHANGED <<pc, args, query_dict, spark_session, sessions_created, spark_app_id,
                   tables, execution_time_list, summaries, total_time_start, power_start,
                   power_end, time_log, time_log_writes, extra_time_log, sanVars, parseVars>>

\* lines 252-261: the engine fails on the next query and the failure leaves
\* report_on, the loop and run_query_stream
QueryFails ==
    /\ pc = "loop"
    /\ Len(executed) < Len(query_dict)
    /\ spark_session = "alive"
    /\ \E r \in report_on_outcomes : r.status = "raise"
    /\ executed' = Append(executed, query_dict[Len(executed) + 1].name)
    /\ now' = now + 1000
    /\ pc' = "failed"
    /\ error' = "query_failed"
    /\ engine_log' = Append(engine_log, engine_op("query", spark_session, sessions_created))
    /\ UNCHANGED <<args, query_dict, spark_session, sessions_created, spark_app_id, tables,
                   execution_time_list, reports, summaries, total_time_start, power_start,
                   power_end, time_log, time_log_writes, extra_time_log, sanVars, parseVars>>

\* lines 252-272: the next query runs, its record is appended and its
\* summary is written when a summary folder is given
QuerySucceeds ==
    /\ pc = "loop"
    /\ Len(executed) < Len(query_dict)
    /\ spark_session = "alive"
    /\ \E summary \in {r \in report_on_outcomes : r.status = "ok"} :
          LET q_name == query_dict[Len(executed) + 1].name
              query_times == summary.queryTimes
          IN /\ executed' = Append(executed, q_name)
             /\ reports' = Append(reports, [name |-> q_name, queryTimes |-> query_times])
             /\ execution_time_list' =
                    Append(execution_time_list,
                           query_record(spark_app_id, q_name, query_times))
             /\ summaries' = IF args.json_summary_folder # "none"
                             THEN Append(summaries,
                                         [prefix |-> summary_prefix(args.property_file),
                                          query |-> q_name])
                             ELSE summaries
    /\ now' = now + 1000
    /\ engine_log' = Append(engine_log, engine_op("query", spark_session, sessions_created))
    /\ UNCHANGED <<pc, args, query_dict, spark_session, sessions_created, spark_app_id,
                   tables, total_time_start, power_start, power_end, time_log,
                   time_log_writes, extra_time_log, error, sanVars, parseVars>>

\* lines 273-288: the session is stopped unless keep_sc, and the four
\* run-level records are appended
FinishRun ==
    /\ pc = "loop"
    /\ Len(executed) = Len(query_dict)
    /\ power_end' = now \div 1000
    /\ spark_session' = IF args.keep_sc THEN spark_session ELSE "stopped"
    /\ execution_time_list' =
           execution_time_list \o
               run_level_records(spark_app_id, power_start, now \div 1000,
                                 ((now \div 1000) - power_start) * 1000,
                                 now - total_time_start)
    /\ pc' = "write"
    /\ engine_log' =
           IF args.keep_sc THEN engine_log
           ELSE Append(engine_log, engine_op("stop", spark_session, sessions_created))
    /\ UNCHANGED <<args, query_dict, sessions_created, spark_app_id, tables, executed,
                   reports, summaries, now, total_time_start, power_start, time_log,
                   time_log_writes, extra_time_log, error, sanVars, parseVars>>

\* lines 290-299: the header and the records are written to the local file
WriteTimeLog ==
    /\ pc = "write"
    /\ time_log' = time_log_rows(execution_time_list)
    /\ time_log_writes' = time_log_writes + 1
    /\ pc' = "extra"
    /\ UNCHANGED engine_log
    /\ UNCHANGED <<args, query_dict, spark_session, sessions_created, spark_app_id, tables,
                   execution_time_list, executed, reports, summaries, now, total_time_start,
                   power_start, power_end, extra_time_log, error, sanVars, parseVars>>

\* lines 300-304, the rows written through the session of line 235
WriteExtraTimeLogOnFirstSession ==
    /\ pc = "extra"
    /\ IF args.extra_time_log_output_path
       THEN extra_time_log' = extra_time_log_rows(execution_time_list)
       ELSE UNCHANGED extra_time_log
    /\ pc' = "done"
    /\ engine_log' =
           IF args.extra_time_log_output_path
           THEN Append(engine_log, engine_op("write", spark_session, sessions_created))
           ELSE engine_log
    /\ UNCHANGED <<args, query_dict, spark_session, sessions_created, spark_app_id, tables,
                   execution_time_list, executed, reports, summaries, now, total_time_start,
                   power_start, power_end, time_log, time_log_writes, error, sanVars,
                   parseVars>>

\* lines 300-304: the records written through the engine, on a session
\* getOrCreate() returns: the live one, or a new one after the stop
WriteExtraTimeLog ==
    /\ pc = "extra"
    /\ IF args.extra_time_log_output_path
       THEN /\ spark_session' = "alive"
            /\ sessions_created' =
                   IF spark_session = "alive" THEN sessions_created ELSE sessions_created + 1
            /\ extra_time_log' = extra_time_log_rows(execution_time_list)
       ELSE UNCHANGED <<spark_session, sessions_created, extra_time_log>>
    /\ pc' = "done"
    /\ engine_log' =
           IF args.extra_time_log_output_path
           THEN Append(engine_log, engine_op("write", spark_session', sessions_created'))
           ELSE engine_log
    /\ UNCHANGED <<args, query_dict, spark_app_id, tables, execution_time_list, executed,
                   reports, summaries, now, total_time_start, power_start, power_end,
                   time_log, time_log_writes, error, sanVars, parseVars>>

Next ==
    \/ CreateSession
    \/ RegisterDeltaTables
    \/ SetupTables
    \/ CheckSummaryFolder
    \/ SelectSubset
    \/ QueryFails
    \/ QuerySucceeds
    \/ FinishRun
    \/ WriteTimeLog
    \/ WriteExtraTimeLog

Spec == Init /\ [][Next]_vars

\* the names requested with --sub_queries
Requested == {args.sub_queries[i] : i \in DOMAIN args.sub_queries}

\* the subset has been selected: the run is in or beyond the query loop
SubsetApplied ==
    /\ args.sub_queries # <<>>
    /\ pc \in {"loop", "write", "extra", "done"} \/ error = "query_failed"

\* the queries given to the engine are the first ones of the collection
ExecutedInOrder == executed = SubSeq(Keys(query_dict), 1, Len(executed))

\* the position of the first occurrence of k in seq
FirstPos(seq, k) == CHOOSE i \in DOMAIN seq : seq[i] = k /\ \A j \in 1..(i - 1) : seq[j] # k

\* C1 (as claimed): the selected subset holds the entries of the original
\* collection whose name is requested, in the original collection's order,
\* and the queries are executed in that order.
C1_CollectionOrder ==
    SubsetApplied =>
        /\ query_dict = SelectSeq(args.query_dict, LAMBDA e : e.name \in Requested)
        /\ ExecutedInOrder

\* C1 (amended): the selected subset holds exactly the entries of the
\* original collection whose name is requested, each once, in the order of
\* the names' first occurrences in the requested list, and the queries are
\* executed in that order.
C1_RequestedOrder ==
    SubsetApplied =>
        /\ {query_dict[i] : i \in DOMAIN query_dict} =
               {e \in {args.query_dict[i] : i \in DOMAIN args.query_dict} : e.name \in Requested}
        /\ \A i, j \in DOMAIN query_dict :
               i < j => FirstPos(args.sub_queries, query_dict[i].name)
                            < FirstPos(args.sub_queries, query_dict[j].name)
        /\ ExecutedInOrder

\* the run of [q1, q2, q3] restricted to [q3, q1] has executed q3, then q1
C1_Witness ==
    /\ pc = "done"
    /\ Len(args.query_dict) = 3
    /\ args.sub_queries = <<"q3", "q1">>
    /\ executed = <<"q3", "q1">>

\* the summaries written after the first n queries of the collection
SummariesOfFirst(n) ==
    IF args.json_summary_folder = "none" THEN <<>>
    ELSE [k \in 1..n |-> [prefix |-> summary_prefix(args.property_file),
                          query |-> query_dict[k].name]]

\* C2: once the i-th query has failed, the run has ended: the queries given
\* to the engine are the first i of the collection, the timing log has been
\* written to neither destination, the summaries of the i-1 queries before
\* it are written when a summary folder is configured, and nothing changes
\* any more.
C2_QueryFailureAborts ==
    /\ [](error = "query_failed" =>
            /\ pc = "failed"
            /\ Len(executed) >= 1
            /\ ExecutedInOrder
            /\ Len(reports) = Len(executed) - 1
            /\ time_log = <<>> /\ time_log_writes = 0 /\ extra_time_log = <<>>
            /\ summaries = SummariesOfFirst(Len(executed) - 1))
    /\ [][error = "query_failed" => UNCHANGED runVars]_vars

\* the third query failed after two summaries were written
C2_Witness ==
    /\ error = "query_failed"
    /\ Len(executed) = 3
    /\ Len(summaries) = 2
    /\ Len(execution_time_list) >= 3

\* the labels of the table setup records the input format calls for
ExpectedSetupLabels ==
    (IF args.input_format = "delta" /\ args.delta_unmanaged
     THEN [i \in 1..NumTables |-> "Register " \o AllTableNames[i]] ELSE <<>>)
    \o
    (IF args.input_format \notin {"iceberg", "delta"} /\ ~args.hive_external
     THEN [i \in 1..NumTables |-> "CreateTempView " \o AllTableNames[i]] ELSE <<>>)

\* C3: the timing log is written at most once, only after every query of
\* the collection has completed, on a completed run exactly once, and holds
\* the header, one record per table setup step, one record per query in the
\* collection's order with queryTimes[0], and the records of the power run
\* start, end, elapsed time and of the total elapsed time, in this order.
C3_TimeLogOnceInOrder ==
    /\ time_log_writes <= 1
    /\ (time_log_writes = 0) <=> (time_log = <<>>)
    /\ pc = "done" => time_log_writes = 1
    /\ time_log_writes = 1 =>
          LET ns == Len(ExpectedSetupLabels)
              nq == Len(query_dict)
              row(k) == time_log[k]
          IN /\ pc \in {"extra", "done"}
             /\ executed = Keys(query_dict)
             /\ Len(reports) = nq
             /\ Len(time_log) = 1 + ns + nq + 4
             /\ row(1) = <<"application_id", "query", "time/milliseconds">>
             /\ \A k \in 1..ns : row(1 + k)[2] = ExpectedSetupLabels[k]
             /\ \A k \in 1..nq :
                    /\ reports[k].name = query_dict[k].name
                    /\ row(1 + ns + k) = <<AppId(1), query_dict[k].name, reports[k].queryTimes[1]>>
             /\ row(ns + nq + 2) = <<AppId(1), "Power Start Time", power_start>>
             /\ row(ns + nq + 3) = <<AppId(1), "Power End Time", power_end>>
             /\ row(ns + nq + 4) = <<AppId(1), "Power Test Time", (power_end - power_start) * 1000>>
             /\ row(ns + nq + 5)[2] = "Total Time"

\* a completed run with table setup, a requested subset of two queries and a
\* report of more than one time
C3_Witness ==
    /\ pc = "done"
    /\ ExpectedSetupLabels # <<>>
    /\ args.sub_queries # <<>>
    /\ Len(query_dict) = 2
    /\ \E k \in DOMAIN reports : Len(reports[k].queryTimes) > 1
    /\ Len(time_log) = 1 + NumTables + 2 + 4

\* a requested name is not in the collection
MissingRequested ==
    \E k \in Requested : \A i \in DOMAIN args.query_dict : args.query_dict[i].name # k

\* C9: when a requested name is not in the collection, the run never enters
\* the query loop: no query is executed, no summary is written, the timing
\* log is not written, and the run fails with the missing-query condition
\* (unless the summary folder check has failed before).
C9_MissingQueryIsFatal ==
    MissingRequested =>
        /\ executed = <<>> /\ reports = <<>>
        /\ summaries = <<>>
        /\ time_log = <<>> /\ time_log_writes = 0 /\ extra_time_log = <<>>
        /\ pc \in {"start", "register", "setup", "check", "subset", "failed"}
        /\ pc = "failed" =>
              error = IF args.json_summary_folder = "unusable"
                      THEN "summary_folder" ELSE "missing_query"

\* the run of [q1, q2, q3] restricted to [q1, q4] has failed
C9_Witness ==
    /\ error = "missing_query"
    /\ pc = "failed"
    /\ Len(args.query_dict) = 3
    /\ args.sub_queries = <<"q1", "q4">>

\* C10 (as claimed): when the summary folder check fails, no session has
\* been established, no table registered or set up, no timing record
\* appended and no query executed.
C10_NoPartialWork ==
    error = "summary_folder" =>
        /\ sessions_created = 0 /\ spark_session = "none"
        /\ tables = {}
        /\ execution_time_list = <<>>
        /\ executed = <<>>

\* C10 (amended): when the summary folder check fails, no query has been
\* executed, no summary and no timing log written; the session has been
\* established and is alive, and every table setup step of the input format
\* has been performed and its timing record appended.
C10_BeforeQueriesAfterSetup ==
    error = "summary_folder" =>
        /\ pc = "failed"
        /\ executed = <<>> /\ reports = <<>> /\ summaries = <<>>
        /\ time_log = <<>> /\ time_log_writes = 0 /\ extra_time_log = <<>>
        /\ sessions_created = 1 /\ spark_session = "alive"
        /\ [k \in DOMAIN execution_time_list |-> execution_time_list[k][2]] = ExpectedSetupLabels
        /\ tables = IF ExpectedSetupLabels = <<>> THEN {}
                    ELSE {AllTableNames[i] : i \in 1..NumTables}

\* the check has failed after the tables were loaded
C10_Witness ==
    /\ error = "summary_folder"
    /\ tables # {}
    /\ Len(execution_time_list) = NumTables

\* the positions of the operations op in the engine log
OpsAt(op) == {k \in DOMAIN engine_log : engine_log[k].op = op}

\* the operations of table setup and of the queries use the first session,
\* alive
RunOpsOnFirstSession ==
    \A k \in DOMAIN engine_log :
        engine_log[k].op \in {"register", "load", "query"} =>
            engine_log[k].session = 1 /\ engine_log[k].alive

\* C11 (as claimed): the run creates exactly one session, every operation on
\* the engine uses it while it is alive, it is terminated, unless keep_sc is
\* set, only as the last step, after the timing log is written, and no
\* operation on the engine follows the termination.
C11_OneSessionStoppedLast ==
    /\ sessions_created <= 1
    /\ pc \notin {"start", "idle"} /\ error # "summary_folder" => sessions_created = 1
    /\ \A k \in DOMAIN engine_log : engine_log[k].session = 1 /\ engine_log[k].alive
    /\ \A k \in OpsAt("stop") : k = Len(engine_log)
    /\ spark_session = "stopped" => ~args.keep_sc /\ pc = "done" /\ time_log_writes = 1
    /\ pc = "done" => (spark_session = "alive" <=> args.keep_sc)

\* C11 (amended): the run creates one session before the table setup, every
\* table setup step and every query uses it while it is alive, and no
\* operation uses a terminated session; unless keep_sc is set, the session
\* is terminated after the last query and before the timing log is written;
\* the secondary write of the timing log uses the session getOrCreate()
\* returns: the first one when it was kept, and otherwise a second session,
\* created after the termination and left alive.
C11_SessionStoppedBeforeLog ==
    /\ pc \notin {"start", "idle"} => sessions_created >= 1
    /\ RunOpsOnFirstSession
    /\ \A k \in DOMAIN engine_log : engine_log[k].alive
    /\ \A k \in OpsAt("stop") :
          /\ ~args.keep_sc /\ engine_log[k].session = 1
          /\ Cardinality(OpsAt("query")) = Len(query_dict)
          /\ \A j \in OpsAt("register") \cup OpsAt("load") \cup OpsAt("query") : j < k
          /\ \A j \in OpsAt("write") : k < j
    /\ Cardinality(OpsAt("stop")) <= 1
    /\ pc \in {"write", "extra"} =>
          /\ spark_session = (IF args.keep_sc THEN "alive" ELSE "stopped")
          /\ sessions_created = 1
          /\ pc = "write" => time_log_writes = 0
    /\ pc \notin {"write", "extra", "done"} => spark_session # "stopped"
    /\ pc = "done" =>
          /\ time_log_writes = 1
          /\ Cardinality(OpsAt("stop")) = (IF args.keep_sc THEN 0 ELSE 1)
          /\ spark_session = "alive" <=> (args.keep_sc \/ args.extra_time_log_output_path)
          /\ sessions_created =
                 (IF ~args.keep_sc /\ args.extra_time_log_output_path THEN 2 ELSE 1)
          /\ \A k \in OpsAt("write") :
                 /\ args.extra_time_log_output_path
                 /\ engine_log[k].session = sessions_created
                 /\ k = Len(engine_log)
          /\ Cardinality(OpsAt("write")) = (IF args.extra_time_log_output_path THEN 1 ELSE 0)

\* a completed run that loaded the tables, ran two queries, stopped its
\* session and wrote the secondary timing log on a second session
C11_Witness ==
    /\ pc = "done"
    /\ OpsAt("load") # {}
    /\ Cardinality(OpsAt("query")) = 2
    /\ OpsAt("stop") # {}
    /\ OpsAt("write") # {}
    /\ sessions_created = 2
    /\ extra_time_log # <<>>

====
